---- MODULE Spec2Model ----
(***************************************************************************)
(* Segment calling of IBDnetwork/ibd.py on one pair and one chromosome:    *)
(* run-length thresholding with gap tolerance (rle_segments_for_pair) and  *)
(* seed-and-extend with an x-drop stop (seed_extend_segments_for_pair),    *)
(* with finalize_segment, summarize_segment and merge_segments.            *)
(*                                                                         *)
(* Identities and thresholds are integers in units of 1e-4 (0.9998 is      *)
(* 9998); scores, rewards and penalties are integers.  A quotient a/b that *)
(* the code computes in floating point is kept as the pair <<a, b>>.       *)
(***************************************************************************)
EXTENDS Integers, Sequences, FiniteSets

VARIABLES
    pc,            \* position in the running function
    wins,          \* the chromosome's window list (argument wins)
    ident_by_idx,  \* window index -> identity, None where the track has no entry
    cfg,           \* the parameters of the call
    i,             \* scan index of the RLE loop / of the seed search
    current,       \* RLE: << >> for None, else <<[start_idx, end_idx]>>
    gaps,          \* RLE: gap windows counted in the active run
    called,        \* RLE: called windows counted in the active run
    ident_sum,     \* RLE: sum of the identities of the called windows
    min_ident,     \* RLE: smallest identity of the called windows
    segments,      \* the list of emitted segments
    seeds,         \* seed-extend: the seeds found, inclusive index pairs
    used,          \* seed-extend: used[k] for every window index
    si,            \* seed-extend: position of the for loop in seeds
    k,             \* seed-extend: extension cursor
    score,         \* seed-extend: running score of the extension
    best_score,    \* seed-extend: best score of the extension so far
    best_left,     \* seed-extend: left boundary chosen
    best_right,    \* seed-extend: right boundary chosen
    segs,          \* merge_segments: the sorted input list
    out,           \* merge_segments: the output list being built
    mi             \* merge_segments: position of the for loop in segs

vars == <<pc, wins, ident_by_idx, cfg, i, current, gaps, called, ident_sum,
          min_ident, segments, seeds, used, si, k, score, best_score,
          best_left, best_right, segs, out, mi>>

rleVars == <<i, current, gaps, called, ident_sum, min_ident>>
extVars == <<k, score, best_score, best_left, best_right>>
mergeVars == <<segs, out, mi>>
inputVars == <<wins, ident_by_idx, cfg>>

----------------------------------------------------------------------------
(* Bounds of the model and constants of the program *)

MaxWins == 4
LongWins == 6
MaxGap == 2

None == -1
IdentOne == 10000
WinLen == 5000

IdentLevels == {9950, 9997, 9998}
MinIdChoices == {9995, 9998}
DropTolChoices == {0, 2}
MinWindowsChoices == {1, 3}
MinLenChoices == {5000, 15000}
Layouts == {"contiguous", "spaced"}
GapLevels == {9997, 9998}
\* <<seed_thr, ext_thr>>
ThresholdChoices == {<<9998, 9995>>, <<9997, 9998>>}
SeedKChoices == {1, 2}
XDropChoices == {0, 1}
RewardChoices == {1}
PenBadChoices == {1}
PenMissChoices == {1, 2}

----------------------------------------------------------------------------
(* Windows *)

\* Window idx of a chromosome laid out back to back, or with an uncovered
\* stretch of one window length after every window.
Win(idx, layout) ==
    LET s == IF layout = "contiguous" THEN idx * WinLen ELSE idx * 2 * WinLen
    IN [chr |-> "chr1", start |-> s, end |-> s + WinLen, length |-> WinLen]

\* The window list of build_windows, 0-based: BuildWindows(n, l)[idx + 1] is
\* wins[idx]; sorted by start.
BuildWindows(n, layout) == [j \in 1..n |-> Win(j - 1, layout)]

W(idx) == wins[idx + 1]
n_wins == Len(wins)

RECURSIVE SumLength(_, _)
\* sum(w.length for w in wins[s:e+1])
SumLength(s, e) == IF s > e THEN 0 ELSE W(s).length + SumLength(s + 1, e)

----------------------------------------------------------------------------
(* rle_segments_for_pair *)

\* faulty variant: the threshold itself does not qualify
qualifies_Strict(ident, min_id) ==
    /\ ident # None
    /\ \/ ident > min_id
       \/ cfg.drop_tolerance > 0 /\ ident > min_id - cfg.drop_tolerance

\* qualifies(ident) of rle_segments_for_pair, for the threshold min_id
qualifies(ident, min_id) ==
    /\ ident # None
    /\ \/ ident >= min_id
       \/ cfg.drop_tolerance > 0 /\ ident >= min_id - cfg.drop_tolerance

\* faulty variant: the base-pair length is not tested
FinalizeSizeOk_WindowsOnly(n_windows, covered_bp) ==
    n_windows >= cfg.min_windows

\* the size test of finalize_segment
FinalizeSizeOk(n_windows, covered_bp) ==
    n_windows >= cfg.min_windows /\ covered_bp >= cfg.min_len_bp

\* finalize_segment: << >> for None, else the one segment
finalize_segment(cur, called_, ident_sum_, min_ident_, gaps_allowed) ==
    LET s == cur.start_idx
        e == cur.end_idx
        n_windows == e - s + 1
        covered_bp == SumLength(s, e)
    IN IF FinalizeSizeOk(n_windows, covered_bp)
       THEN << [chr |-> W(s).chr,
                start |-> W(s).start,
                end |-> W(e).end,
                n_windows |-> n_windows,
                covered_bp |-> covered_bp,
                mean_ident |-> IF called_ > 0 THEN <<ident_sum_, called_>> ELSE <<0, 1>>,
                min_ident |-> min_ident_,
                n_gaps |-> gaps_allowed,
                frac_called |-> IF n_windows > 0 THEN <<called_, n_windows>> ELSE <<0, 1>>] >>
       ELSE << >>

\* the locals of the scan as one record
RleState == [i |-> i, current |-> current, gaps |-> gaps, called |-> called,
             ident_sum |-> ident_sum, min_ident |-> min_ident,
             segments |-> segments]

RleStart == [i |-> 0, current |-> << >>, gaps |-> 0, called |-> 0,
             ident_sum |-> 0, min_ident |-> IdentOne, segments |-> << >>]

\* the run is closed: current = None and the accumulators are reset
RleReset(st) == [st EXCEPT !.current = << >>, !.gaps = 0, !.called = 0,
                           !.ident_sum = 0, !.min_ident = IdentOne]

\* a run is opened at window idx, whose identity is ident
RleOpen(st, idx, ident) ==
    [st EXCEPT !.current = << [start_idx |-> idx, end_idx |-> idx] >>,
               !.gaps = 0, !.called = 1, !.ident_sum = ident, !.min_ident = ident]

\* faulty variant: the run is closed one gap early
GapLimitExceeded_AtLimit(gaps_, max_gap) == gaps_ >= max_gap

\* the gap test that closes the run while it is being extended
GapLimitExceeded(gaps_, max_gap) == gaps_ > max_gap

\* the window extends the active run
RleExtend(st, idx, ident, missing) ==
    LET ext == [st EXCEPT
                  !.current = << [st.current[1] EXCEPT !.end_idx = idx] >>,
                  !.gaps = IF missing THEN @ + 1 ELSE @,
                  !.called = IF missing THEN @ ELSE @ + 1,
                  !.ident_sum = IF missing THEN @ ELSE @ + ident,
                  !.min_ident = IF ~missing /\ ident < @ THEN ident ELSE @]
    IN IF GapLimitExceeded(ext.gaps, cfg.max_gap)
       THEN \* finalize without including this window
            LET cur == [ext.current[1] EXCEPT !.end_idx = idx - 1]
                seg == finalize_segment(cur, ext.called, ext.ident_sum,
                                        ext.min_ident, cfg.max_gap)
            IN RleReset([ext EXCEPT !.segments = @ \o seg])
       ELSE ext

\* the window closes the active run, and opens the next one if it is good
RleClose(st, idx, ident, good) ==
    LET seg == finalize_segment(st.current[1], st.called, st.ident_sum,
                                st.min_ident, st.gaps)
        closed == RleReset([st EXCEPT !.segments = @ \o seg])
    IN IF good THEN RleOpen(closed, idx, ident) ELSE closed

\* one iteration of the while loop, for the threshold min_id
RleIter(st, min_id) ==
    LET ident == ident_by_idx[st.i]
        missing == ident = None
        good == IF ~missing THEN qualifies(ident, min_id) ELSE FALSE
        extend_condition == good \/ (missing /\ cfg.treat_missing_as_gap)
        body == IF st.current = << >>
                THEN IF good THEN RleOpen(st, st.i, ident) ELSE st
                ELSE IF extend_condition
                     THEN RleExtend(st, st.i, ident, missing)
                     ELSE RleClose(st, st.i, ident, good)
    IN [body EXCEPT !.i = @ + 1]

\* the code after the loop: the open run is finalized
RleEnd(st) ==
    IF st.current # << >>
    THEN st.segments \o finalize_segment(st.current[1], st.called, st.ident_sum,
                                         st.min_ident, st.gaps)
    ELSE st.segments

RECURSIVE RleLoop(_, _)
RleLoop(st, min_id) ==
    IF st.i < n_wins THEN RleLoop(RleIter(st, min_id), min_id) ELSE st

\* rle_segments_for_pair on the track and windows of the state, for min_id
rle_segments_for_pair(min_id) == RleEnd(RleLoop(RleStart, min_id))

RleScan ==
    /\ pc = "rle"
    /\ i < n_wins
    /\ LET st == RleIter(RleState, cfg.min_id)
       IN /\ i' = st.i
          /\ current' = st.current
          /\ gaps' = st.gaps
          /\ called' = st.called
          /\ ident_sum' = st.ident_sum
          /\ min_ident' = st.min_ident
          /\ segments' = st.segments
    /\ UNCHANGED <<pc, inputVars, seeds, used, si, extVars, mergeVars>>

RleReturn ==
    /\ pc = "rle"
    /\ ~(i < n_wins)
    /\ segments' = RleEnd(RleState)
    /\ pc' = "done"
    /\ UNCHANGED <<inputVars, rleVars, seeds, used, si, extVars, mergeVars>>

----------------------------------------------------------------------------
(* summarize_segment and merge_segments *)

RECURSIVE SumIdent(_, _)
\* sum(called_idents) over the window indices s..e
SumIdent(s, e) ==
    IF s > e THEN 0
    ELSE (IF ident_by_idx[s] # None THEN ident_by_idx[s] ELSE 0) + SumIdent(s + 1, e)

\* the indices of called_idents: the windows of s..e that the track holds
CalledIdx(s, e) == {x \in s..e : ident_by_idx[x] # None}

\* min(called_idents)
MinIdent(s, e) ==
    CHOOSE m \in {ident_by_idx[x] : x \in CalledIdx(s, e)} :
        \A x \in CalledIdx(s, e) : m <= ident_by_idx[x]

summarize_segment(s, e) ==
    LET n_windows == e - s + 1
        n_called == Cardinality(CalledIdx(s, e))
    IN [chr |-> W(s).chr,
        start |-> W(s).start,
        end |-> W(e).end,
        n_windows |-> n_windows,
        covered_bp |-> SumLength(s, e),
        mean_ident |-> IF n_called > 0 THEN <<SumIdent(s, e), n_called>> ELSE <<0, 1>>,
        min_ident |-> IF n_called > 0 THEN MinIdent(s, e) ELSE 0,
        frac_called |-> IF n_windows > 0 THEN <<n_called, n_windows>> ELSE <<0, 1>>]

\* the sort key (chr, start, end) of merge_segments: a strictly before b
\* (every segment of one call is on the one chromosome of wins)
KeyLess(a, b) ==
    \/ a.start < b.start
    \/ a.start = b.start /\ a.end < b.end

RECURSIVE InsertSorted(_, _)
\* s put into the sorted list l after every element whose key is not greater
InsertSorted(l, s) ==
    IF l = << >> THEN <<s>>
    ELSE IF KeyLess(s, l[1]) THEN <<s>> \o l
    ELSE <<l[1]>> \o InsertSorted(Tail(l), s)

RECURSIVE SortSegs(_)
\* sorted(segs, key=(chr, start, end)): stable
SortSegs(l) ==
    IF l = << >> THEN << >>
    ELSE InsertSorted(SortSegs(SubSeq(l, 1, Len(l) - 1)), l[Len(l)])

\* faulty variant: the start is compared with the start of last, not with its end
MergeTest_StartOnly(last, s) == s.chr = last.chr /\ s.start <= last.start

\* the test of merge_segments that coalesces s into last
MergeTest(last, s) == s.chr = last.chr /\ s.start <= last.end

Min2(a, b) == IF a <= b THEN a ELSE b
Max2(a, b) == IF a >= b THEN a ELSE b

\* faulty variant: the later segment is widened and kept instead of last
Coalesce_IntoLater(last, s) ==
    [s EXCEPT !.start = Min2(last.start, s.start), !.end = Max2(last.end, s.end)]

\* the merge: last widened to the union of the two ranges, nothing else changed
Coalesce(last, s) ==
    [last EXCEPT !.start = Min2(last.start, s.start), !.end = Max2(last.end, s.end)]

\* one iteration of the for loop of merge_segments over s = segs[mi]
MergeIter(out_, s) ==
    LET last == out_[Len(out_)]
    IN IF MergeTest(last, s)
       THEN [out_ EXCEPT ![Len(out_)] = Coalesce(last, s)]
       ELSE Append(out_, s)

----------------------------------------------------------------------------
(* seed_extend_segments_for_pair *)

\* faulty variant: the seed search uses the extension threshold
SeedLevel_ExtThr(idx) == ident_by_idx[idx] # None /\ ident_by_idx[idx] >= cfg.ext_thr

\* the test of the seed search on window idx
SeedLevel(idx) == ident_by_idx[idx] # None /\ ident_by_idx[idx] >= cfg.seed_thr

RECURSIVE RunEnd(_)
\* the inner while loop: the first j >= idx at which the run stops
RunEnd(j) == IF j < n_wins /\ SeedLevel(j) THEN RunEnd(j + 1) ELSE j

\* the length test that keeps a run as a seed
SeedLongEnough(run) == run >= cfg.seed_k

\* missing and not treat_missing_as_gap: the window is passed over
Skipped(idx) == ident_by_idx[idx] = None /\ ~cfg.treat_missing_as_gap

\* faulty variant: the extension compares with the seed threshold
ExtScore_SeedThr(idx, sc) ==
    IF ident_by_idx[idx] = None THEN sc - cfg.pen_miss
    ELSE IF ident_by_idx[idx] >= cfg.seed_thr THEN sc + cfg.reward
    ELSE sc - cfg.pen_bad

\* the running score after the window idx is scored
ExtScore(idx, sc) ==
    IF ident_by_idx[idx] = None THEN sc - cfg.pen_miss
    ELSE IF ident_by_idx[idx] >= cfg.ext_thr THEN sc + cfg.reward
    ELSE sc - cfg.pen_bad

\* faulty variant: a tie with the best score moves the best position too
Improves_OrEqual(sc, bs) == sc >= bs

\* the test that moves the best position to the current window
Improves(sc, bs) == sc > bs

\* the x-drop stop
XDropStop(bs, sc) == bs - sc > cfg.xdrop

\* the size test of seed_extend_segments_for_pair on a candidate
CandidateSizeOk(seg) ==
    seg.n_windows >= cfg.min_windows /\ seg.covered_bp >= cfg.min_len_bp

\* all(used[k] for k in range(s, e+1))
AllUsed(s, e) == \A x \in s..e : used[x]

SeedScan ==
    /\ pc = "find_seeds"
    /\ i < n_wins
    /\ IF SeedLevel(i)
       THEN LET j == RunEnd(i)
                run == j - i
            IN /\ seeds' = IF SeedLongEnough(run)
                           THEN Append(seeds, <<i, j - 1>>) ELSE seeds
               /\ i' = j
       ELSE /\ i' = i + 1
            /\ seeds' = seeds
    /\ UNCHANGED <<pc, inputVars, current, gaps, called, ident_sum, min_ident,
                   segments, used, si, extVars, mergeVars>>

SeedScanEnd ==
    /\ pc = "find_seeds"
    /\ ~(i < n_wins)
    /\ pc' = "for_seed"
    /\ UNCHANGED <<inputVars, rleVars, segments, seeds, used, si, extVars, mergeVars>>

\* a seed fully covered by earlier segments is skipped
SkipSeed ==
    /\ pc = "for_seed"
    /\ si <= Len(seeds)
    /\ AllUsed(seeds[si][1], seeds[si][2])
    /\ si' = si + 1
    /\ UNCHANGED <<pc, inputVars, rleVars, segments, seeds, used, extVars, mergeVars>>

BeginLeft ==
    /\ pc = "for_seed"
    /\ si <= Len(seeds)
    /\ ~AllUsed(seeds[si][1], seeds[si][2])
    /\ best_left' = seeds[si][1]
    /\ score' = 0
    /\ best_score' = 0
    /\ k' = seeds[si][1] - 1
    /\ pc' = "left"
    /\ UNCHANGED <<inputVars, rleVars, segments, seeds, used, si, best_right, mergeVars>>

\* one iteration of the while loop "extend left"
ExtendLeft ==
    /\ pc = "left"
    /\ k >= 0
    /\ IF Skipped(k)
       THEN /\ k' = k - 1
            /\ UNCHANGED <<pc, score, best_score, best_left>>
       ELSE LET sc == ExtScore(k, score)
                better == Improves(sc, best_score)
                bs == IF better THEN sc ELSE best_score
            IN /\ score' = sc
               /\ best_score' = bs
               /\ best_left' = IF better THEN k ELSE best_left
               /\ IF XDropStop(bs, sc)
                  THEN pc' = "left_done" /\ k' = k
                  ELSE pc' = pc /\ k' = k - 1
    /\ UNCHANGED <<inputVars, rleVars, segments, seeds, used, si, best_right, mergeVars>>

\* the loop "extend left" ends at the chromosome boundary
LeftExit ==
    /\ pc = "left"
    /\ ~(k >= 0)
    /\ pc' = "left_done"
    /\ UNCHANGED <<inputVars, rleVars, segments, seeds, used, si, extVars, mergeVars>>

BeginRight ==
    /\ pc = "left_done"
    /\ best_right' = seeds[si][2]
    /\ score' = 0
    /\ best_score' = 0
    /\ k' = seeds[si][2] + 1
    /\ pc' = "right"
    /\ UNCHANGED <<inputVars, rleVars, segments, seeds, used, si, best_left, mergeVars>>

\* one iteration of the while loop "extend right"
ExtendRight ==
    /\ pc = "right"
    /\ k < n_wins
    /\ IF Skipped(k)
       THEN /\ k' = k + 1
            /\ UNCHANGED <<pc, score, best_score, best_right>>
       ELSE LET sc == ExtScore(k, score)
                better == Improves(sc, best_score)
                bs == IF better THEN sc ELSE best_score
            IN /\ score' = sc
               /\ best_score' = bs
               /\ best_right' = IF better THEN k ELSE best_right
               /\ IF XDropStop(bs, sc)
                  THEN pc' = "right_done" /\ k' = k
                  ELSE pc' = pc /\ k' = k + 1
    /\ UNCHANGED <<inputVars, rleVars, segments, seeds, used, si, best_left, mergeVars>>

\* the loop "extend right" ends at the chromosome boundary
RightExit ==
    /\ pc = "right"
    /\ ~(k < n_wins)
    /\ pc' = "right_done"
    /\ UNCHANGED <<inputVars, rleVars, segments, seeds, used, si, extVars, mergeVars>>

\* "finalize candidate": summarize, filter, append, mark used; next seed
FinalizeCandidate ==
    /\ pc = "right_done"
    /\ LET seg == summarize_segment(best_left, best_right)
       IN IF CandidateSizeOk(seg)
          THEN /\ segments' = Append(segments, seg)
               /\ used' = [x \in DOMAIN used |->
                             IF best_left <= x /\ x <= best_right THEN TRUE ELSE used[x]]
          ELSE UNCHANGED <<segments, used>>
    /\ si' = si + 1
    /\ pc' = "for_seed"
    /\ UNCHANGED <<inputVars, rleVars, seeds, extVars, mergeVars>>

\* the for loop over the seeds ends: merge_segments is called
SeedsDone ==
    /\ pc = "for_seed"
    /\ ~(si <= Len(seeds))
    /\ pc' = "merge"
    /\ UNCHANGED <<inputVars, rleVars, segments, seeds, used, si, extVars, mergeVars>>

\* merge_segments on an empty list returns []
MergeEmpty ==
    /\ pc = "merge"
    /\ segments = << >>
    /\ pc' = "done"
    /\ UNCHANGED <<inputVars, rleVars, segments, seeds, used, si, extVars, mergeVars>>

\* merge_segments sorts its input and starts out with the first segment
MergeBegin ==
    /\ pc = "merge"
    /\ segments # << >>
    /\ segs' = SortSegs(segments)
    /\ out' = <<segs'[1]>>
    /\ mi' = 2
    /\ pc' = "merge_loop"
    /\ UNCHANGED <<inputVars, rleVars, segments, seeds, used, si, extVars>>

MergeStep ==
    /\ pc = "merge_loop"
    /\ mi <= Len(segs)
    /\ out' = MergeIter(out, segs[mi])
    /\ mi' = mi + 1
    /\ UNCHANGED <<pc, inputVars, rleVars, segments, seeds, used, si, extVars, segs>>

\* merge_segments returns out, which becomes the segment list
MergeReturn ==
    /\ pc = "merge_loop"
    /\ ~(mi <= Len(segs))
    /\ segments' = out
    /\ pc' = "done"
    /\ UNCHANGED <<inputVars, rleVars, seeds, used, si, extVars, segs, out, mi>>

----------------------------------------------------------------------------
(* Inputs and initial states *)

\* ident_by_idx of a chromosome of n windows: every window holds an identity
\* or is missing from the track
Tracks(n) == [0..(n - 1) -> IdentLevels \cup {None}]

\* the defaults of main's argument parser
Defaults ==
    [mode |-> "seed", min_windows |-> 3, min_len_bp |-> 5000,
     treat_missing_as_gap |-> FALSE, min_id |-> 9995, max_gap |-> 1,
     drop_tolerance |-> 0, seed_thr |-> 9998, seed_k |-> 2, ext_thr |-> 9995,
     xdrop |-> 2, reward |-> 1, pen_bad |-> 1, pen_miss |-> 1]

RleConfigs ==
    {[Defaults EXCEPT !.mode = "rle", !.min_id = a, !.max_gap = b, !.min_windows = c,
                      !.min_len_bp = d, !.treat_missing_as_gap = e,
                      !.drop_tolerance = f] :
        a \in MinIdChoices, b \in 0..MaxGap, c \in MinWindowsChoices,
        d \in MinLenChoices, e \in BOOLEAN, f \in DropTolChoices}

\* RLE with missing windows counted as gaps, on the longer tracks
GapConfigs ==
    {[Defaults EXCEPT !.mode = "rle", !.min_id = a, !.max_gap = b, !.min_windows = c,
                      !.treat_missing_as_gap = TRUE] :
        a \in MinIdChoices, b \in 0..MaxGap, c \in MinWindowsChoices}

SeedConfigs ==
    {[Defaults EXCEPT !.seed_thr = a[1], !.ext_thr = a[2], !.seed_k = b, !.xdrop = d,
                      !.reward = e, !.pen_bad = f, !.pen_miss = g,
                      !.min_windows = h, !.min_len_bp = l,
                      !.treat_missing_as_gap = m] :
        a \in ThresholdChoices, b \in SeedKChoices,
        d \in XDropChoices, e \in RewardChoices, f \in PenBadChoices,
        g \in PenMissChoices, h \in MinWindowsChoices, l \in MinLenChoices,
        m \in BOOLEAN}

\* toy1 of generate_toys.py, pair (A, B): ten windows, windows 1..6 high
Toy1Track ==
    [x \in 0..9 |-> IF 1 <= x /\ x <= 6 THEN (IF x # 4 THEN 9998 ELSE 9997) ELSE 9950]

\* the seed-extend scenario: seven windows, window 3 absent from the track
Toy3Track ==
    [x \in 0..6 |-> CASE x = 0 -> 9950
                      [] x = 1 -> 9997
                      [] x = 3 -> None
                      [] x = 6 -> 9950
                      [] OTHER -> 9998]

\* the state of both callers before their first loop
Start(w, t, c) ==
    /\ wins = w
    /\ ident_by_idx = t
    /\ cfg = c
    /\ pc = IF c.mode = "rle" THEN "rle" ELSE "find_seeds"
    /\ i = 0
    /\ current = << >>
    /\ gaps = 0
    /\ called = 0
    /\ ident_sum = 0
    /\ min_ident = IdentOne
    /\ segments = << >>
    /\ seeds = << >>
    /\ used = [x \in 0..(Len(w) - 1) |-> FALSE]
    /\ si = 1
    /\ k = 0
    /\ score = 0
    /\ best_score = 0
    /\ best_left = 0
    /\ best_right = 0
    /\ segs = << >>
    /\ out = << >>
    /\ mi = 1

InitRle ==
    \/ \E n \in 1..MaxWins, l \in Layouts, c \in RleConfigs :
          \E t \in Tracks(n) : Start(BuildWindows(n, l), t, c)
    \/ \E t \in [0..(LongWins - 1) -> GapLevels \cup {None}], c \in GapConfigs :
          Start(BuildWindows(LongWins, "contiguous"), t, c)
    \/ \E e \in BOOLEAN :
          Start(BuildWindows(10, "contiguous"), Toy1Track,
                [Defaults EXCEPT !.mode = "rle", !.treat_missing_as_gap = e])

InitSeed ==
    \/ \E n \in 1..MaxWins, l \in Layouts, c \in SeedConfigs :
          \E t \in Tracks(n) : Start(BuildWindows(n, l), t, c)
    \/ Start(BuildWindows(7, "contiguous"), Toy3Track,
             [Defaults EXCEPT !.treat_missing_as_gap = TRUE])

Init == InitRle \/ InitSeed

NextRle == RleScan \/ RleReturn

NextSeed ==
    \/ SeedScan \/ SeedScanEnd
    \/ SkipSeed \/ BeginLeft \/ ExtendLeft \/ LeftExit
    \/ BeginRight \/ ExtendRight \/ RightExit
    \/ FinalizeCandidate \/ SeedsDone
    \/ MergeEmpty \/ MergeBegin \/ MergeStep \/ MergeReturn

Next == NextRle \/ NextSeed

Spec == Init /\ [][Next]_vars
SpecRle == InitRle /\ [][NextRle]_vars
SpecSeed == InitSeed /\ [][NextSeed]_vars

----------------------------------------------------------------------------
(* Vocabulary of the properties, stated from the inputs alone *)

Idx == 0..(n_wins - 1)
Returned == pc = "done"
RleMode == cfg.mode = "rle"
SeedMode == cfg.mode = "seed"

\* the window index range of a segment, from its base-pair coordinates
IdxOfStart(bp) == CHOOSE x \in Idx : W(x).start = bp
IdxOfEnd(bp) == CHOOSE x \in Idx : W(x).end = bp
RangeOf(seg) == IdxOfStart(seg.start)..IdxOfEnd(seg.end)

Present(x) == ident_by_idx[x] # None
Missing(x) == ident_by_idx[x] = None

\* a window qualifies at the threshold t: identity >= t, or within the drop
\* tolerance below t when the tolerance is positive
Qualifying(x, t) ==
    /\ Present(x)
    /\ \/ ident_by_idx[x] >= t
       \/ cfg.drop_tolerance > 0 /\ ident_by_idx[x] >= t - cfg.drop_tolerance

RECURSIVE TotalCoveredBp(_)
TotalCoveredBp(l) == IF l = << >> THEN 0 ELSE l[1].covered_bp + TotalCoveredBp(Tail(l))

\* C1. Filter enforcement: no segment returned by either caller (after
\* merging, in seed mode) has n_windows < min_windows or
\* covered_bp < min_length_bp.
FilterEnforced ==
    Returned =>
        \A j \in 1..Len(segments) :
            /\ segments[j].n_windows >= cfg.min_windows
            /\ segments[j].covered_bp >= cfg.min_len_bp

\* a seed-extend call that merged candidates and returned a segment whose
\* window count is exactly the minimum
FilterEnforcedWitness ==
    /\ Returned /\ SeedMode
    /\ Len(segs) > Len(segments)
    /\ \E j \in 1..Len(segments) : segments[j].n_windows = cfg.min_windows
    /\ cfg.min_windows > 1

\* C2. Merge correctness: in the list seed-extend returns, every segment
\* starts strictly after the end of the segment before it, so no two
\* [start, end] ranges overlap.
MergedDisjoint ==
    (Returned /\ SeedMode) =>
        \A a, b \in 1..Len(segments) :
            a < b => segments[a].end < segments[b].start

\* two candidates overlapped before the merge and were coalesced
MergedDisjointWitness ==
    /\ Returned /\ SeedMode
    /\ \E a, b \in 1..Len(segs) : a < b /\ segs[b].start < segs[a].end
    /\ Len(segments) = 1

\* (s, e) is a full seed: a maximal run of at least seed_k consecutive
\* windows, all present with identity >= seed_threshold
IsSeed(s, e) ==
    /\ s <= e
    /\ e - s + 1 >= cfg.seed_k
    /\ \A x \in s..e : Present(x) /\ ident_by_idx[x] >= cfg.seed_thr
    /\ s - 1 \in Idx => ~(Present(s - 1) /\ ident_by_idx[s - 1] >= cfg.seed_thr)
    /\ e + 1 \in Idx => ~(Present(e + 1) /\ ident_by_idx[e + 1] >= cfg.seed_thr)

\* C3. Seed containment: the window range of every segment seed-extend
\* returns contains a full seed.
SeedContained ==
    (Returned /\ SeedMode) =>
        \A j \in 1..Len(segments) :
            \E s, e \in Idx :
                IsSeed(s, e) /\ s \in RangeOf(segments[j]) /\ e \in RangeOf(segments[j])

\* a returned segment that was extended beyond its seed on both sides
SeedContainedWitness ==
    /\ Returned /\ SeedMode
    /\ \E j \in 1..Len(segments) :
          \E s, e \in Idx :
              /\ IsSeed(s, e)
              /\ IdxOfStart(segments[j].start) < s
              /\ e < IdxOfEnd(segments[j].end)

\* C4. RLE threshold monotonicity: with everything else fixed, the segments
\* emitted at a threshold t2 >= min_identity never cover more base pairs in
\* total than the segments emitted at min_identity.
RleThresholdMonotone ==
    (Returned /\ RleMode) =>
        \A t2 \in MinIdChoices :
            t2 >= cfg.min_id =>
                TotalCoveredBp(rle_segments_for_pair(t2)) <= TotalCoveredBp(segments)

\* the windows strictly between a and b
Between(a, b) == (a + 1)..(b - 1)

\* C5. max_gap bounds consecutive gap windows: with missing windows counted
\* as gaps, a stretch of at most max_gap missing windows between two
\* qualifying windows does not close the run, so a segment that holds the
\* qualifying window before the stretch holds the one after it too.
GapLimitIsConsecutive ==
    (Returned /\ RleMode /\ cfg.treat_missing_as_gap) =>
        \A j \in 1..Len(segments) :
            \A a, b \in Idx :
                ( /\ a < b
                  /\ Qualifying(a, cfg.min_id)
                  /\ Qualifying(b, cfg.min_id)
                  /\ Between(a, b) # {}
                  /\ \A x \in Between(a, b) : Missing(x)
                  /\ Cardinality(Between(a, b)) <= cfg.max_gap
                  /\ a \in RangeOf(segments[j]) )
                => b \in RangeOf(segments[j])

FullyPresent == \A x \in Idx : Present(x)

\* (s, e) is a maximal run of consecutive qualifying windows
IsQualifyingRun(s, e) ==
    /\ s <= e
    /\ \A x \in s..e : Qualifying(x, cfg.min_id)
    /\ s - 1 \in Idx => ~Qualifying(s - 1, cfg.min_id)
    /\ e + 1 \in Idx => ~Qualifying(e + 1, cfg.min_id)

\* the runs that pass both size filters (every window is WinLen long)
EmittedRuns ==
    {r \in Idx \X Idx :
        /\ IsQualifyingRun(r[1], r[2])
        /\ r[2] - r[1] + 1 >= cfg.min_windows
        /\ (r[2] - r[1] + 1) * WinLen >= cfg.min_len_bp}

IsToy1 ==
    /\ ident_by_idx = Toy1Track
    /\ RleMode
    /\ cfg.min_id = 9995 /\ cfg.max_gap = 1 /\ cfg.min_windows = 3
    /\ cfg.min_len_bp = 5000 /\ cfg.drop_tolerance = 0

IsToy3 ==
    /\ ident_by_idx = Toy3Track
    /\ SeedMode
    /\ cfg.seed_thr = 9998 /\ cfg.seed_k = 2 /\ cfg.ext_thr = 9995 /\ cfg.xdrop = 2
    /\ cfg.reward = 1 /\ cfg.pen_bad = 1 /\ cfg.pen_miss = 1
    /\ cfg.treat_missing_as_gap /\ cfg.min_windows = 3 /\ cfg.min_len_bp = 5000

\* C7. The seed-extend scenario: the only seed is windows 4-5, and the one
\* segment returned runs from window 1 to window 5.
Toy3Segment ==
    (IsToy3 /\ pc \notin {"find_seeds"}) =>
        /\ seeds = << <<4, 5>> >>
        /\ Returned =>
              /\ Len(segments) = 1
              /\ IdxOfStart(segments[1].start) = 1
              /\ IdxOfEnd(segments[1].end) = 5
              /\ segments[1].n_windows = 5

\* the scenario has run to the end
Toy3Witness == Returned /\ IsToy3 /\ segments # << >>

\* the windows from k0 outward to p, in the direction dir (-1 left, 1 right)
Walk(k0, dir, p) ==
    {x \in Idx : IF dir = 1 THEN k0 <= x /\ x <= p ELSE p <= x /\ x <= k0}

\* a window that the extension scores: every present window, and a missing
\* one only when missing windows count as gaps
Scored(x) == Present(x) \/ cfg.treat_missing_as_gap

\* what scoring the window adds to the running score
Delta(x) ==
    IF ~Scored(x) THEN 0
    ELSE IF Missing(x) THEN 0 - cfg.pen_miss
    ELSE IF ident_by_idx[x] >= cfg.ext_thr THEN cfg.reward
    ELSE 0 - cfg.pen_bad

RECURSIVE SumDelta(_)
SumDelta(S) ==
    IF S = {} THEN 0 ELSE LET x == CHOOSE y \in S : TRUE IN Delta(x) + SumDelta(S \ {x})

\* the running score, started at 0, once window p has been scored
ScoreAfter(k0, dir, p) == SumDelta(Walk(k0, dir, p))

SetMax(S) == CHOOSE m \in S : \A y \in S : y <= m

\* the best score recorded once window p has been scored
BestAfter(k0, dir, p) ==
    SetMax({0} \cup {ScoreAfter(k0, dir, x) : x \in {y \in Walk(k0, dir, p) : Scored(y)}})

\* the extension stops after scoring window p
StopsAt(k0, dir, p) ==
    Scored(p) /\ BestAfter(k0, dir, p) - ScoreAfter(k0, dir, p) > cfg.xdrop

\* the windows the extension scores: outward from k0, up to and including
\* the first one at which it stops
Visited(k0, dir) ==
    {p \in Idx :
        /\ IF dir = 1 THEN p >= k0 ELSE p <= k0
        /\ Scored(p)
        /\ \A x \in Walk(k0, dir, p) \ {p} : ~StopsAt(k0, dir, x)}

\* the visited window closest to the seed where the running score is at its
\* maximum over the visited windows, if that maximum is positive; else the
\* seed's own boundary
BestBoundary(k0, dir, seedEdge) ==
    LET V == Visited(k0, dir)
        top == SetMax({0} \cup {ScoreAfter(k0, dir, p) : p \in V})
        at == {p \in V : ScoreAfter(k0, dir, p) = top}
    IN IF top > 0
       THEN CHOOSE p \in at : \A q \in at : dir * (p - k0) <= dir * (q - k0)
       ELSE seedEdge

\* C8. X-drop extension boundary: in each direction the boundary chosen is
\* the visited window closest to the seed that attains the maximum running
\* score when that maximum is positive, else the seed's own boundary; the
\* loop ends at the chromosome boundary or at the first visited window where
\* best_score - score > xdrop.
XDropBoundary ==
    /\ pc = "left_done" =>
          LET s == seeds[si][1] IN
          /\ best_left = BestBoundary(s - 1, -1, s)
          /\ k >= 0 => (k \in Visited(s - 1, -1) /\ StopsAt(s - 1, -1, k))
          /\ k < 0 => \A p \in Visited(s - 1, -1) : ~StopsAt(s - 1, -1, p)
    /\ pc = "right_done" =>
          LET e == seeds[si][2] IN
          /\ best_right = BestBoundary(e + 1, 1, e)
          /\ k < n_wins => (k \in Visited(e + 1, 1) /\ StopsAt(e + 1, 1, k))
          /\ k >= n_wins => \A p \in Visited(e + 1, 1) : ~StopsAt(e + 1, 1, p)

\* a right extension stopped by the x-drop rule two scored windows beyond
\* the boundary it chose, which lies beyond the seed
XDropBoundaryWitness ==
    /\ pc = "right_done"
    /\ k < n_wins
    /\ best_right > seeds[si][2]
    /\ k = best_right + 2
    /\ cfg.xdrop > 0
    /\ cfg.treat_missing_as_gap

\* the candidates at which merge_segments starts a new output segment:
\* those that start after the end of every candidate before them
GroupStarts ==
    {p \in 1..Len(segs) : \A q \in 1..(p - 1) : segs[q].end < segs[p].start}

\* the candidates coalesced into the group that starts at p
GroupOf(p) ==
    {q \in p..Len(segs) : \A r \in GroupStarts : r > p => q < r}

\* the start of the j-th group
NthStart(j) ==
    CHOOSE p \in GroupStarts : Cardinality({r \in GroupStarts : r <= p}) = j

====
